---------------------------- MODULE Spec2Model ----------------------------
(***************************************************************************)
(* Model of the WS2812 matrix BLE control client:                          *)
(*   - the frame codec of ws2812_ble_test.py (build_frame, parse_ack,      *)
(*     crc_xor) and its device discovery,                                  *)
(*   - the two WS2812Controller variants: the threaded one of              *)
(*     03_ws2812_config_ui.py (a persistent event loop on a worker thread) *)
(*     and the asyncio.run based one of ws2812_config_ui.py,               *)
(*   - the BLE transport (bleak) as the environment: connections,          *)
(*     notification subscriptions, faults, connection loss, time.          *)
(***************************************************************************)
EXTENDS Integers, Sequences, FiniteSets, TLC

VARIABLES
    threaded,        \* TRUE: 03_ws2812_config_ui.py, FALSE: ws2812_config_ui.py
    callers,         \* how many calls the callers may have outstanding at once
    stray,           \* TRUE: the peripheral also notifies acks of other requests
    device_address,  \* WS2812Controller.device_address ("" is None)
    client,          \* WS2812Controller.client: index into clients, 0 is None
    clients,         \* every BleakClient the controller constructed
    tasks,           \* every call made on the controller, with its coroutine state
    log,             \* the transport operations issued, in order
    connected,       \* st.session_state.connected of the calling front end
    cin,             \* codec: the arguments given to build_frame
    cframe,          \* codec: what build_frame returned
    cack,            \* codec: what parse_ack returned
    cbuf,            \* codec: a received buffer handed to parse_ack
    cpc,             \* codec: position of the codec exercise
    scan             \* discovery: one call of discover_device_by_name

ctlVars == <<threaded, callers, stray, device_address, client, clients, tasks, log, connected>>
codecVars == <<cin, cframe, cack, cbuf, cpc, scan>>
vars == <<threaded, callers, stray, device_address, client, clients, tasks, log, connected,
          cin, cframe, cack, cbuf, cpc, scan>>

---------------------------------------------------------------------------
(* Bounds of the model *)

\* payloads of every content are enumerated up to this length
MaxShort == 2

\* how far past MAX_PAYLOAD the payload lengths go
MaxOver == 2

\* bytes that follow the frame body in a received buffer
MaxTail == 2

\* devices in one scan result
MaxDevices == 3

\* calls made on one controller
MaxCalls == 3

\* calls that concurrent callers keep outstanding on the threaded controller
MaxOutstanding == 2

---------------------------------------------------------------------------
(* Protocol constants *)

FRAME_HEADER == 43605

PROTOCOL_VERSION == 1

MAX_PAYLOAD == 32

\* Python's None where the source puts it in an integer field
None == -1

\* byte values the inputs are drawn from
ByteSamples == {0, 1, 16, 255}

PayloadBytes == {0, 1, 255}

Min(a, b) == IF a < b THEN a ELSE b

---------------------------------------------------------------------------
(* ws2812_ble_test.py: the codec *)

\* a ^ b on non-negative integers
Xor(a, b) ==
    LET bits[x \in Nat, y \in Nat] ==
            IF x = 0 THEN y
            ELSE IF y = 0 THEN x
            ELSE (((x % 2) + (y % 2)) % 2) + 2 * bits[x \div 2, y \div 2]
    IN  bits[a, b]

RECURSIVE crc_xor(_)
crc_xor(data) ==
    IF data = <<>> THEN 0
    ELSE Xor(crc_xor(SubSeq(data, 1, Len(data) - 1)), data[Len(data)])

\* the frame body with the header's low byte first
frame_body_little_endian(event, sub_event, sequence, payload) ==
    << FRAME_HEADER % 256, (FRAME_HEADER \div 256) % 256,
       PROTOCOL_VERSION,
       event % 256,
       sub_event % 256,
       sequence % 256,
       Len(payload) >> \o payload

\* the bytes build_frame appends before the checksum
frame_body(event, sub_event, sequence, payload) ==
    << (FRAME_HEADER \div 256) % 256, FRAME_HEADER % 256,
       PROTOCOL_VERSION,
       event % 256,
       sub_event % 256,
       sequence % 256,
       Len(payload) >> \o payload

\* build_frame without the length check
build_frame_unchecked(event, sub_event, sequence, payload) ==
    LET body == frame_body(event, sub_event, sequence, payload)
    IN  [err |-> "", frame |-> Append(body, crc_xor(body))]

\* build_frame refusing a payload of exactly MAX_PAYLOAD bytes
build_frame_limit_inclusive(event, sub_event, sequence, payload) ==
    IF Len(payload) >= MAX_PAYLOAD
    THEN [err |-> "payload too long", frame |-> <<>>]
    ELSE LET frame == frame_body(event, sub_event, sequence, payload)
         IN  [err |-> "", frame |-> frame \o <<crc_xor(frame)>>]

\* err = "" is a normal return, anything else the message of the ValueError
build_frame(event, sub_event, sequence, payload) ==
    IF Len(payload) > MAX_PAYLOAD
    THEN [err |-> "payload too long", frame |-> <<>>]
    ELSE LET frame == frame_body(event, sub_event, sequence, payload)
         IN  [err |-> "", frame |-> frame \o <<crc_xor(frame)>>]

AckError(msg) ==
    [err |-> msg, event |-> None, sub_event |-> None, sequence |-> None,
     status |-> None, ref_event |-> None, ref_sub |-> None]

\* data[0], data[1], ... of the source are data[1], data[2], ... here
checksum_index_off_by_one(data) == 6 + data[7]

checksum_index(data) == 7 + data[7]

\* data[7:7 + data_len]: a Python slice stops at the end of the buffer
ack_payload(data) == SubSeq(data, 8, Min(7 + data[7], Len(data)))

\* parse_ack without its version check
parse_ack_no_version_check(data) ==
    IF Len(data) < 9 THEN AckError("ACK frame too short")
    ELSE IF data[1] * 256 + data[2] # FRAME_HEADER THEN AckError("Invalid header")
    ELSE IF checksum_index(data) >= Len(data) THEN AckError("ACK data length mismatch")
    ELSE IF data[checksum_index(data) + 1] # crc_xor(SubSeq(data, 1, Len(data) - 1))
         THEN AckError("Checksum mismatch")
    ELSE LET payload == ack_payload(data)
         IN  [err |-> "",
              event |-> data[4],
              sub_event |-> data[5],
              sequence |-> data[6],
              status |-> IF Len(payload) > 0 THEN payload[1] ELSE None,
              ref_event |-> IF Len(payload) > 1 THEN payload[2] ELSE None,
              ref_sub |-> IF Len(payload) > 2 THEN payload[3] ELSE None]

\* parse_ack looking at the header before the length of the buffer
parse_ack_header_first(data) ==
    IF Len(data) >= 2 /\ data[1] * 256 + data[2] # FRAME_HEADER
    THEN AckError("Invalid header")
    ELSE parse_ack_no_version_check(data)

parse_ack(data) ==
    IF Len(data) < 9 THEN AckError("ACK frame too short")
    ELSE IF data[1] * 256 + data[2] # FRAME_HEADER THEN AckError("Invalid header")
    ELSE IF data[3] # PROTOCOL_VERSION THEN AckError("Protocol version mismatch")
    ELSE IF checksum_index(data) >= Len(data) THEN AckError("ACK data length mismatch")
    ELSE IF data[checksum_index(data) + 1] # crc_xor(SubSeq(data, 1, Len(data) - 1))
         THEN AckError("Checksum mismatch")
    ELSE LET payload == ack_payload(data)
         IN  [err |-> "",
              event |-> data[4],
              sub_event |-> data[5],
              sequence |-> data[6],
              status |-> IF Len(payload) > 0 THEN payload[1] ELSE None,
              ref_event |-> IF Len(payload) > 1 THEN payload[2] ELSE None,
              ref_sub |-> IF Len(payload) > 2 THEN payload[3] ELSE None]

---------------------------------------------------------------------------
(* The codec exercised on bounded inputs *)

RECURSIVE SeqsUpTo(_, _)
SeqsUpTo(S, n) ==
    IF n = 0 THEN {<<>>}
    ELSE LET shorter == SeqsUpTo(S, n - 1)
         IN  shorter \cup {Append(s, x) : s \in shorter, x \in S}

\* every payload up to MaxShort bytes, and uniform payloads of every length
\* up to MaxOver past the maximum
Payloads ==
    SeqsUpTo(PayloadBytes, MaxShort)
    \cup {[i \in 1..n |-> b] : n \in 0..(MAX_PAYLOAD + MaxOver), b \in PayloadBytes}

NoFrame == [err |-> "unset", frame |-> <<>>]

NoAck == AckError("unset")

\* no call of discover_device_by_name
ScanIdle == [pc |-> "off", devices |-> <<>>, device_name |-> "", address |-> ""]

CodecOff ==
    /\ cin = [event |-> 0, sub_event |-> 0, sequence |-> 0, payload |-> <<>>]
    /\ cframe = NoFrame
    /\ cack = NoAck
    /\ cbuf = <<>>
    /\ cpc = "off"

CodecIdle ==
    /\ CodecOff
    /\ scan = ScanIdle

InitCodec ==
    /\ cin \in [event : ByteSamples, sub_event : ByteSamples,
                sequence : ByteSamples, payload : Payloads]
    /\ cframe = NoFrame
    /\ cack = NoAck
    /\ cbuf = <<>>
    /\ cpc = "input"
    /\ scan = ScanIdle

Encode ==
    /\ cpc = "input"
    /\ cframe' = build_frame(cin.event, cin.sub_event, cin.sequence, cin.payload)
    /\ cpc' = "encoded"
    /\ UNCHANGED <<cin, cack, cbuf, scan>>

Decode ==
    /\ cpc = "encoded"
    /\ cframe.err = ""
    /\ cack' = parse_ack(cframe.frame)
    /\ cpc' = "decoded"
    /\ UNCHANGED <<cin, cframe, cbuf, scan>>

\* byte x with bit b inverted
FlipBit(x, b) == IF (x \div (2 ^ b)) % 2 = 1 THEN x - 2 ^ b ELSE x + 2 ^ b

\* the inputs whose frames are corrupted: every short payload, and the
\* uniform payloads of the greatest length
FlipPayloads ==
    SeqsUpTo(PayloadBytes, MaxShort)
    \cup {[i \in 1..MAX_PAYLOAD |-> b] : b \in PayloadBytes}

InitFlip ==
    /\ cin \in [event : ByteSamples, sub_event : ByteSamples,
                sequence : ByteSamples, payload : FlipPayloads]
    /\ cframe = NoFrame
    /\ cack = NoAck
    /\ cbuf = <<>>
    /\ cpc = "input"
    /\ scan = ScanIdle

\* one bit of the encoded frame is inverted on the way to the receiver
Flip(i, b) ==
    /\ cpc = "encoded"
    /\ cframe.err = ""
    /\ i \in 1..Len(cframe.frame)
    /\ cbuf' = [cframe.frame EXCEPT ![i] = FlipBit(@, b)]
    /\ cpc' = "flipped"
    /\ UNCHANGED <<cin, cframe, cack, scan>>

\* received buffers: a frame body followed by any few bytes (among them the
\* bodies followed by their checksum and by bytes after it)
RawBuffers ==
    {frame_body(e, s, q, p) \o tail :
        e \in ByteSamples, s \in ByteSamples, q \in ByteSamples,
        p \in SeqsUpTo(PayloadBytes, 1), tail \in SeqsUpTo(PayloadBytes, MaxTail)}
    \cup
    {build_frame(e, s, q, p).frame \o tail :
        e \in ByteSamples, s \in ByteSamples, q \in ByteSamples,
        p \in SeqsUpTo(PayloadBytes, 1), tail \in SeqsUpTo(PayloadBytes, MaxTail)}

\* well-formed frames of payloads up to three bytes, sequence 1 or 2
AckFrames ==
    {build_frame(16, 1, q, p).frame :
        q \in {1, 2}, p \in SeqsUpTo(PayloadBytes, 3)}

\* frames with a valid checksum whose length byte is MAX_PAYLOAD or more
LongFrames ==
    {build_frame_unchecked(e, 1, 1, [i \in 1..n |-> b]).frame :
        e \in ByteSamples, b \in PayloadBytes,
        n \in MAX_PAYLOAD..(MAX_PAYLOAD + MaxOver)}

\* a buffer with its two header bytes in the other order
SwapHeader(data) == [data EXCEPT ![1] = data[2], ![2] = data[1]]

\* a buffer announcing the next protocol version
WrongVersion(data) == [data EXCEPT ![3] = PROTOCOL_VERSION + 1]

Prefixes(data) == {SubSeq(data, 1, n) : n \in 0..Len(data)}

\* frames received damaged: header swapped, version wrong, cut short, and
\* every combination of these
MangledBuffers ==
    UNION {Prefixes(m) :
        m \in UNION {{f, SwapHeader(f), WrongVersion(f), SwapHeader(WrongVersion(f))} :
                        f \in AckFrames \cup
                              {build_frame(e, s, 1, p).frame \o tail :
                                  e \in ByteSamples, s \in ByteSamples,
                                  p \in SeqsUpTo(PayloadBytes, 1),
                                  tail \in SeqsUpTo(PayloadBytes, 1)}}}

InitRaw ==
    /\ cin = [event |-> 0, sub_event |-> 0, sequence |-> 0, payload |-> <<>>]
    /\ cframe = NoFrame
    /\ cack = NoAck
    /\ cbuf \in RawBuffers \cup AckFrames \cup LongFrames \cup MangledBuffers
    /\ cpc = "raw"
    /\ scan = ScanIdle

\* parse_ack on the received buffer
DecodeBuf ==
    /\ cpc \in {"flipped", "raw"}
    /\ cack' = parse_ack(cbuf)
    /\ cpc' = IF cpc = "flipped" THEN "parsedflip" ELSE "parsedraw"
    /\ UNCHANGED <<cin, cframe, cbuf, scan>>


---------------------------------------------------------------------------
(* ws2812_ble_test.py: discovery *)

\* a comparison of names that ignores case, over the names of the model
Lower(name) == IF name = "HOSHI-MATRIX" THEN "hoshi-matrix" ELSE name

RECURSIVE discover_device_ignoring_case(_, _)
discover_device_ignoring_case(devices, device_name) ==
    IF devices = <<>> THEN ""
    ELSE IF Head(devices).name # "" /\ Lower(Head(devices).name) = Lower(device_name)
         THEN Head(devices).address
         ELSE discover_device_ignoring_case(Tail(devices), device_name)

\* None of the source is "" here; an advertisement without a name has name ""
RECURSIVE discover_device_by_name(_, _)
discover_device_by_name(devices, device_name) ==
    IF devices = <<>> THEN ""
    ELSE IF Head(devices).name # "" /\ Head(devices).name = device_name
         THEN Head(devices).address
         ELSE discover_device_by_name(Tail(devices), device_name)

\* names on the air: the one asked for, one differing in case, a proper
\* prefix of it, and none
ScanNames == {"HOSHI-MATRIX", "hoshi-matrix", "HOSHI", ""}

\* names asked for
RequestNames == {"HOSHI-MATRIX", "HOSHI", ""}

\* the address of the device at each position of a scan result
ScanAddresses == <<"A1:01", "A2:02", "A3:03", "A4:04", "A5:05">>

\* every scan result of up to MaxDevices devices
ScanLists ==
    {[i \in 1..n |-> [name |-> names[i], address |-> ScanAddresses[i]]] :
        n \in 0..MaxDevices, names \in [1..MaxDevices -> ScanNames]}

InitScan ==
    /\ scan \in [pc : {"scanned"}, devices : ScanLists,
                 device_name : RequestNames, address : {""}]

\* the loop over the scan result and the return
Discover ==
    /\ scan.pc = "scanned"
    /\ scan' = [scan EXCEPT !.pc = "returned",
                            !.address = discover_device_by_name(scan.devices,
                                                                scan.device_name)]
    /\ UNCHANGED <<cin, cframe, cack, cbuf, cpc>>

---------------------------------------------------------------------------
(* The environment: what is on the air, what the callers ask for *)

DEVICE_NAME == "HOSHI-MATRIX"

Matrix == [name |-> DEVICE_NAME, address |-> "AA:AA"]

Other == [name |-> "OTHER", address |-> "BB:BB"]

Unnamed == [name |-> "", address |-> "CC:CC"]

\* what BleakScanner.discover may return
ScanResults == {<<>>, <<Unnamed, Matrix, Other>>}

\* the names connect() is called with
CallNames == {DEVICE_NAME, "OTHER"}

\* the payloads send() is called with: one byte, and one byte too many
SendPayloads == {<<1>>, [i \in 1..(MAX_PAYLOAD + 1) |-> 0]}

EVENT_SET_EFFECT == 16

SUBEVENT == 1

\* seconds send_command sleeps between the write and stop_notify
ACK_WAIT == 2

\* notifications one ack_handler may receive
MaxNotifs == 2

\* what the peripheral may notify: an ack with status 0, and a truncated frame
NotifyData ==
    {build_frame(EVENT_SET_EFFECT, SUBEVENT, 1, <<0, EVENT_SET_EFFECT, SUBEVENT>>).frame,
     <<170, 85, 1>>}

\* an ack of another request: sequence 2, status 1
StrayData ==
    {build_frame(EVENT_SET_EFFECT, SUBEVENT, 2, <<1, EVENT_SET_EFFECT, SUBEVENT>>).frame}

---------------------------------------------------------------------------
(* State of the controller and of the transport *)

\* where the coroutine of a call runs: _run_coro hands it to the event loop of
\* the worker thread and waits for the future; asyncio.run runs it on the
\* thread that called
run_coro_inline(thr) == "caller"

run_coro(thr) == IF thr THEN "worker" ELSE "caller"

NewTask(kind, name, payload, sess) ==
    [kind |-> kind,
     thread |-> run_coro(threaded),
     pc |-> IF kind = "connect" THEN "scan" ELSE "start",
     name |-> name,              \* connect: device_name
     payload |-> payload,        \* send: payload
     cl |-> 0,                   \* connect: the BleakClient it constructed
     notify_started |-> FALSE,   \* send: local of the threaded send_command
     ack_received |-> <<>>,      \* send: <<>> is None, else <<the parsed ack>>
     error |-> "",               \* send: the exception travelling through finally
     slept |-> 0,                \* send: seconds of asyncio.sleep gone by
     got |-> 0,                  \* send: notifications its ack_handler was given
     after_write |-> <<>>,       \* send: <<the first notification its handler was
                                 \*       given after the frame was written>>
     wasConnected |-> sess,      \* the session was Connected when the call was made
     result |-> ""]              \* what the call returned or raised

Outstanding == {t \in 1..Len(tasks) : tasks[t].pc # "done"}

LiveClients == {c \in 1..Len(clients) : clients[c].is_connected}

\* the session as the caller knows it: the last connect succeeded, nothing
\* disconnected since, and the transport has not lost the connection
SessionConnected ==
    /\ connected
    /\ client # 0
    /\ clients[client].is_connected

Finish(t, res) == [tasks EXCEPT ![t].pc = "done", ![t].result = res]

Op(name, t, c, ok, frame) ==
    [op |-> name, task |-> t, client |-> c, ok |-> ok, frame |-> frame,
     thread |-> tasks[t].thread]

ControllerInit ==
    /\ device_address = ""
    /\ client = 0
    /\ clients = <<>>
    /\ tasks = <<>>
    /\ log = <<>>
    /\ connected = FALSE

\* the front end calls one operation at a time
Init ==
    /\ threaded \in BOOLEAN
    /\ callers = 1
    /\ stray = FALSE
    /\ ControllerInit
    /\ CodecIdle

\* callers on several threads share the threaded controller
InitConcurrent ==
    /\ threaded = TRUE
    /\ callers = MaxOutstanding
    /\ stray = FALSE
    /\ ControllerInit
    /\ CodecIdle

\* the threaded controller behind the front end, one call at a time
InitThreaded ==
    /\ threaded = TRUE
    /\ callers = 1
    /\ stray = FALSE
    /\ ControllerInit
    /\ CodecIdle

\* either controller, with a peripheral that also notifies acks of requests
\* other than the outstanding one
InitStray ==
    /\ threaded \in BOOLEAN
    /\ callers = 1
    /\ stray = TRUE
    /\ ControllerInit
    /\ CodecIdle

\* no controller in the codec exercises
ControllerOff ==
    /\ threaded = FALSE
    /\ callers = 0
    /\ stray = FALSE
    /\ ControllerInit

InitFlipOnly == ControllerOff /\ InitFlip

InitScanOnly == ControllerOff /\ CodecOff /\ InitScan

InitRawOnly == ControllerOff /\ InitRaw

InitCodecOnly ==
    /\ threaded = FALSE
    /\ callers = 0
    /\ stray = FALSE
    /\ ControllerInit
    /\ InitCodec

---------------------------------------------------------------------------
(* Calls arriving at the controller *)

Call ==
    /\ Len(tasks) < MaxCalls
    /\ Cardinality(Outstanding) < callers
    /\ \/ \E n \in CallNames :
            tasks' = Append(tasks, NewTask("connect", n, <<>>, SessionConnected))
       \/ \E p \in SendPayloads :
            tasks' = Append(tasks, NewTask("send", "", p, SessionConnected))
       \/ tasks' = Append(tasks, NewTask("disconnect", "", <<>>, SessionConnected))
    /\ UNCHANGED <<threaded, callers, stray, device_address, client, clients, log, connected>>
    /\ UNCHANGED codecVars

---------------------------------------------------------------------------
(* WS2812Controller.connect_device *)

\* an exception inside connect_device: the threaded controller re-raises it,
\* the asyncio.run one reports it and returns False
connect_failed(thr) == IF thr THEN "raised: transport" ELSE "False"

\* discover_device_by_name returns; on a match the BleakClient is constructed
\* and stored, and its connect() is awaited
connect_device_scan(t) ==
    /\ tasks[t].kind = "connect"
    /\ tasks[t].pc = "scan"
    /\ \/ \E devices \in ScanResults :
            LET addr == discover_device_by_name(devices, tasks[t].name)
            IN  /\ device_address' = addr
                /\ log' = Append(log, Op("scan", t, 0, TRUE, <<>>))
                /\ IF addr # ""
                   THEN /\ clients' = Append(clients,
                                [address |-> addr, is_connected |-> FALSE, notify |-> 0])
                        /\ client' = Len(clients) + 1
                        /\ tasks' = [tasks EXCEPT ![t].pc = "connecting",
                                                  ![t].cl = Len(clients) + 1]
                        /\ UNCHANGED connected
                   ELSE /\ tasks' = Finish(t, "False")
                        /\ connected' = FALSE
                        /\ UNCHANGED <<clients, client>>
       \/ \* BleakScanner.discover raises
          /\ log' = Append(log, Op("scan", t, 0, FALSE, <<>>))
          /\ tasks' = Finish(t, connect_failed(threaded))
          /\ connected' = FALSE
          /\ UNCHANGED <<device_address, clients, client>>
    /\ UNCHANGED <<threaded, callers, stray>>
    /\ UNCHANGED codecVars

\* await self.client.connect() completes
connect_device_connect(t) ==
    /\ tasks[t].kind = "connect"
    /\ tasks[t].pc = "connecting"
    /\ \E ok \in BOOLEAN :
        /\ log' = Append(log, Op("connect", t, tasks[t].cl, ok, <<>>))
        /\ clients' = [clients EXCEPT ![tasks[t].cl].is_connected = ok]
        /\ tasks' = Finish(t, IF ok THEN "True" ELSE connect_failed(threaded))
        /\ connected' = ok
    /\ UNCHANGED <<threaded, callers, stray, device_address, client>>
    /\ UNCHANGED codecVars

---------------------------------------------------------------------------
(* WS2812Controller.disconnect *)

\* client.disconnect() closes the connection and with it its subscription
disconnect(t) ==
    /\ tasks[t].kind = "disconnect"
    /\ tasks[t].pc = "start"
    /\ IF client # 0
       THEN /\ log' = Append(log, Op("disconnect", t, client, TRUE, <<>>))
            /\ clients' = [clients EXCEPT ![client].is_connected = FALSE,
                                          ![client].notify = 0]
       ELSE UNCHANGED <<log, clients>>
    /\ tasks' = Finish(t, "None")
    /\ connected' = FALSE
    /\ UNCHANGED <<threaded, callers, stray, device_address, client>>
    /\ UNCHANGED codecVars

---------------------------------------------------------------------------
(* WS2812Controller.send_command *)

\* what send_command returns after stop_notify
ack_result(ack_received) == IF ack_received = <<>> THEN "None" ELSE "ack"

\* the guard, build_frame, and await self.client.start_notify(...)
send_command_start(t) ==
    /\ tasks[t].kind = "send"
    /\ tasks[t].pc = "start"
    /\ IF client = 0 \/ ~clients[client].is_connected
       THEN /\ tasks' = Finish(t, "raised: Device not connected")
            /\ UNCHANGED <<clients, log>>
       ELSE IF build_frame(EVENT_SET_EFFECT, SUBEVENT, 1, tasks[t].payload).err # ""
       THEN /\ tasks' = Finish(t, "raised: payload too long")
            /\ UNCHANGED <<clients, log>>
       ELSE \E ok \in BOOLEAN :
            /\ log' = Append(log, Op("start_notify", t, client, ok, <<>>))
            /\ IF ok
               THEN /\ clients' = [clients EXCEPT ![client].notify = t]
                    /\ tasks' = [tasks EXCEPT ![t].pc = "write",
                                              ![t].notify_started = threaded]
               ELSE /\ tasks' = Finish(t, IF threaded
                                          THEN "raised: Command send error"
                                          ELSE "raised: transport")
                    /\ UNCHANGED clients
    /\ UNCHANGED <<threaded, callers, stray, device_address, client, connected>>
    /\ UNCHANGED codecVars

\* where send_command goes when write_gatt_char raises: the threaded
\* controller's finally clause still stops the notification, the asyncio.run
\* controller lets the exception out
on_write_error_no_finally(thr) == "done"

\* a send_command that writes the frame again when the write failed
on_write_error_retry(thr) == "write"

on_write_error(thr) == IF thr THEN "stop" ELSE "done"

\* await self.client.write_gatt_char(..., frame)
send_command_write(t) ==
    /\ tasks[t].kind = "send"
    /\ tasks[t].pc = "write"
    /\ \E ok \in {TRUE, FALSE} :
        /\ ok => clients[client].is_connected
        /\ log' = Append(log, Op("write", t, client, ok,
                     build_frame(EVENT_SET_EFFECT, SUBEVENT, 1, tasks[t].payload).frame))
        /\ IF ok
           THEN tasks' = [tasks EXCEPT ![t].pc = "sleep"]
           ELSE IF on_write_error(threaded) = "done"
           THEN tasks' = Finish(t, "raised: transport")
           ELSE tasks' = [tasks EXCEPT ![t].pc = on_write_error(threaded),
                                       ![t].error = "Command send error"]
    /\ UNCHANGED <<threaded, callers, stray, device_address, client, clients, connected>>
    /\ UNCHANGED codecVars

\* asyncio.sleep(2.0) has run its time
window_always_elapsed(slept) == TRUE

window_never_elapsed(slept) == slept > ACK_WAIT

window_elapsed(slept) == slept >= ACK_WAIT

\* await self.client.stop_notify(...) and the return. stop_notify removes the
\* characteristic's callback; it raises when the connection is gone or nothing
\* is subscribed. The threaded controller swallows that, the other one raises.
send_command_stop(t) ==
    /\ tasks[t].kind = "send"
    /\ \/ tasks[t].pc = "stop"
       \/ tasks[t].pc = "sleep" /\ window_elapsed(tasks[t].slept)
    /\ LET ok == clients[client].is_connected /\ clients[client].notify # 0
       IN  /\ log' = Append(log, Op("stop_notify", t, client, ok, <<>>))
           /\ clients' = IF ok THEN [clients EXCEPT ![client].notify = 0] ELSE clients
           /\ tasks' = Finish(t,
                 IF tasks[t].error # "" THEN "raised: Command send error"
                 ELSE IF ~ok /\ ~threaded THEN "raised: transport"
                 ELSE ack_result(tasks[t].ack_received))
    /\ UNCHANGED <<threaded, callers, stray, device_address, client, connected>>
    /\ UNCHANGED codecVars

\* the callback given to start_notify, run for one notification
ack_handler(t, data) ==
    LET ack == parse_ack(data)
    IN  [tasks EXCEPT ![t].got = @ + 1,
                      ![t].after_write = IF tasks[t].pc = "sleep" /\ @ = <<>>
                                         THEN <<data>> ELSE @,
                      ![t].ack_received = IF ack.err = "" THEN <<ack>> ELSE @]

---------------------------------------------------------------------------
(* The transport and the clock *)

\* the peripheral notifies the characteristic
Notify(c, data) ==
    /\ clients[c].is_connected
    /\ clients[c].notify # 0
    /\ tasks[clients[c].notify].got < MaxNotifs
    /\ data \in StrayData => stray
    /\ tasks' = ack_handler(clients[c].notify, data)
    /\ UNCHANGED <<threaded, callers, stray, device_address, client, clients, log, connected>>
    /\ UNCHANGED codecVars

\* the link drops: the client reports is_connected False, its callbacks are gone
ConnectionLoss(c) ==
    /\ clients[c].is_connected
    /\ clients' = [clients EXCEPT ![c].is_connected = FALSE, ![c].notify = 0]
    /\ UNCHANGED <<threaded, callers, stray, device_address, client, tasks, log, connected>>
    /\ UNCHANGED codecVars

\* one second passes for every coroutine in asyncio.sleep
Tick ==
    /\ \E t \in 1..Len(tasks) : tasks[t].pc = "sleep" /\ tasks[t].slept < ACK_WAIT
    /\ tasks' = [t \in 1..Len(tasks) |->
                    IF tasks[t].pc = "sleep" /\ tasks[t].slept < ACK_WAIT
                    THEN [tasks[t] EXCEPT !.slept = @ + 1]
                    ELSE tasks[t]]
    /\ UNCHANGED <<threaded, callers, stray, device_address, client, clients, log, connected>>
    /\ UNCHANGED codecVars

---------------------------------------------------------------------------
(* Specifications *)

Next ==
    \/ Call
    \/ \E t \in 1..Len(tasks) : connect_device_scan(t)
    \/ \E t \in 1..Len(tasks) : connect_device_connect(t)
    \/ \E t \in 1..Len(tasks) : send_command_start(t)
    \/ \E t \in 1..Len(tasks) : send_command_write(t)
    \/ \E t \in 1..Len(tasks) : send_command_stop(t)
    \/ \E t \in 1..Len(tasks) : disconnect(t)
    \/ \E c \in 1..Len(clients) : \E data \in NotifyData \cup StrayData : Notify(c, data)
    \/ \E c \in 1..Len(clients) : ConnectionLoss(c)
    \/ Tick

\* one controller of either kind, its front end calling one operation at a time
Spec == Init /\ [][Next]_vars

\* one controller of either kind and a peripheral that notifies stray acks
SpecStray == InitStray /\ [][Next]_vars

\* the threaded controller with callers on several threads
SpecConcurrent == InitConcurrent /\ [][Next]_vars

\* the event loop of the worker thread runs the coroutine of call t up to its
\* next await, whose transport operation completes
Step(t) ==
    /\ t \in 1..Len(tasks)
    /\ \/ connect_device_scan(t)
       \/ connect_device_connect(t)
       \/ send_command_start(t)
       \/ send_command_write(t)
       \/ send_command_stop(t)
       \/ disconnect(t)

\* the worker loop keeps running every coroutine handed to it, and time passes
LoopFairness ==
    /\ WF_vars(Tick)
    /\ \A t \in 1..MaxCalls : WF_vars(Step(t))

\* the threaded controller under a fairly scheduled worker loop
SpecLive == InitThreaded /\ [][Next]_vars /\ LoopFairness

NextCodec ==
    \/ Encode /\ UNCHANGED ctlVars
    \/ Decode /\ UNCHANGED ctlVars

\* the codec functions on bounded inputs
SpecCodec == InitCodecOnly /\ [][NextCodec]_vars

NextFlip ==
    \/ Encode /\ UNCHANGED ctlVars
    \/ \E i \in 1..(MAX_PAYLOAD + 8) : \E b \in 0..7 : Flip(i, b) /\ UNCHANGED ctlVars
    \/ DecodeBuf /\ UNCHANGED ctlVars

\* frames with one bit inverted between build_frame and parse_ack
SpecFlip == InitFlipOnly /\ [][NextFlip]_vars

NextRaw == DecodeBuf /\ UNCHANGED ctlVars

\* parse_ack on received buffers
SpecRaw == InitRawOnly /\ [][NextRaw]_vars

NextScan == Discover /\ UNCHANGED ctlVars

\* discover_device_by_name on bounded scan results
SpecScan == InitScanOnly /\ [][NextScan]_vars

---------------------------------------------------------------------------
(* Helpers of the properties *)

Sends == {t \in 1..Len(tasks) : tasks[t].kind = "send"}

DoneSends == {t \in Sends : tasks[t].pc = "done"}

\* the positions in the log of task t's operations named op
OpsOf(t, op) == {i \in 1..Len(log) : log[i].task = t /\ log[i].op = op}

Subscribed(t) == \E i \in OpsOf(t, "start_notify") : log[i].ok

\* task t's handler is still registered on some client
Active(t) == \E c \in 1..Len(clients) : clients[c].notify = t

StoppedAfterStart(t) ==
    \E i \in OpsOf(t, "start_notify") : \E j \in OpsOf(t, "stop_notify") : i < j

RoundTripOk ==
    /\ cack.err = ""
    /\ cack.event = cin.event
    /\ cack.sub_event = cin.sub_event
    /\ cack.sequence = cin.sequence

---------------------------------------------------------------------------
(* Properties *)

\* C1 (as stated): for every payload of length 0..32, the empty one included,
\* parse_ack(build_frame(event, subevent, sequence, payload)) succeeds and
\* returns the same event, subevent and sequence.
C1_RoundTripEveryLength ==
    cpc = "decoded" => RoundTripOk

\* C1 (amended): the round trip holds for every payload of length 1..32; the
\* frame of an empty payload is 8 bytes long and parse_ack rejects it as too
\* short.
C1_RoundTripNonEmpty ==
    cpc = "decoded" =>
        IF Len(cin.payload) >= 1
        THEN RoundTripOk
        ELSE cack.err = "ACK frame too short"

C1_Witness ==
    /\ cpc = "decoded"
    /\ Len(cin.payload) = MAX_PAYLOAD
    /\ cin.event = 255
    /\ cack.err = ""
    /\ cack.event = 255

\* C2: of two consecutive writes of send(), the sequence byte (offset 5) of the
\* second frame is that of the first plus 1 modulo 256.
C2_SequenceIncrements ==
    \A i, j \in 1..Len(log) :
        (/\ i < j
         /\ log[i].op = "write"
         /\ log[j].op = "write"
         /\ \A k \in (i + 1)..(j - 1) : log[k].op # "write")
        => log[j].frame[6] = (log[i].frame[6] + 1) % 256

\* C3: a send() made while the session is not Connected fails with the
\* not-connected error and issues no transport operation.
C3_NotConnectedNoIO ==
    \A t \in Sends :
        ~tasks[t].wasConnected =>
            /\ \A i \in 1..Len(log) : log[i].task # t
            /\ tasks[t].pc = "done" => tasks[t].result = "raised: Device not connected"

\* C4: in the threaded controller every send_command that subscribed has
\* issued stop_notify by the time it returns or raises, and none of its
\* subscriptions is active afterwards.
C4_ThreadedAlwaysUnsubscribes ==
    threaded =>
        \A t \in DoneSends :
            Subscribed(t) => StoppedAfterStart(t) /\ ~Active(t)

C4_Witness ==
    /\ threaded
    /\ \E t \in DoneSends :
        /\ tasks[t].result = "raised: Command send error"
        /\ \E i \in OpsOf(t, "write") : ~log[i].ok /\ clients[log[i].client].is_connected
        /\ StoppedAfterStart(t)

\* C5: in the asyncio.run based controller every send_command that subscribed
\* has issued stop_notify by the time it returns or raises, and none of its
\* subscriptions is active afterwards.
C5_PlainAlwaysUnsubscribes ==
    ~threaded =>
        \A t \in DoneSends :
            Subscribed(t) => StoppedAfterStart(t) /\ ~Active(t)

\* C6: a send() whose frame was written and whose handler was given no
\* notification returns None (the timeout outcome) when no transport operation
\* of it failed, and in the threaded controller also when stop_notify failed;
\* it returns only once the response window has passed, and its subscription
\* is gone when it returns.
C6_SilentTransportTimesOut ==
    \A t \in DoneSends :
        (/\ \E i \in OpsOf(t, "write") : log[i].ok
         /\ tasks[t].got = 0
         /\ threaded \/ \A i \in 1..Len(log) : log[i].task = t => log[i].ok)
        => /\ tasks[t].result = "None"
           /\ tasks[t].slept >= ACK_WAIT
           /\ StoppedAfterStart(t)
           /\ ~Active(t)

C6_Witness ==
    \E t \in DoneSends :
        /\ tasks[t].wasConnected
        /\ tasks[t].got = 0
        /\ tasks[t].result = "None"
        /\ tasks[t].slept = ACK_WAIT
        /\ \E i \in OpsOf(t, "stop_notify") : log[i].ok

\* C7: a disconnect() made when the session is already Disconnected (no
\* connect has succeeded before it, or the call before it was a disconnect)
\* issues no transport operation.
C7_DisconnectIdempotent ==
    \A t \in 1..Len(tasks) :
        (/\ tasks[t].kind = "disconnect"
         /\ \/ \A u \in 1..(t - 1) : tasks[u].result # "True"
            \/ t > 1 /\ tasks[t - 1].kind = "disconnect")
        => \A i \in 1..Len(log) : log[i].task # t

\* C8: at most one connection opened by the controller is live.
C8_AtMostOneLive ==
    Cardinality(LiveClients) <= 1

\* C9: once disconnect() has returned, no connection the controller opened is
\* live.
C9_DisconnectReleasesAll ==
    (/\ Len(tasks) > 0
     /\ tasks[Len(tasks)].kind = "disconnect"
     /\ tasks[Len(tasks)].pc = "done")
    => LiveClients = {}

\* C11: a send() whose handler was given notifications and could parse none of
\* them does not return what a send() given no notification returns (None):
\* the decode failure reaches the caller.
C11_MalformedAckReported ==
    \A t \in DoneSends :
        (/\ tasks[t].got > 0
         /\ tasks[t].ack_received = <<>>
         /\ tasks[t].error = "")
        => tasks[t].result # "None"

\* C12: after a connect() that ended in failure the session is Disconnected:
\* the send() made next fails with the not-connected error; and a connect()
\* whose discovery found nothing issues no transport connect.
C12_FailedConnectDisconnects ==
    /\ \A t \in Sends :
        (/\ t > 1
         /\ tasks[t - 1].kind = "connect"
         /\ tasks[t - 1].result # "True"
         /\ tasks[t].pc = "done")
        => tasks[t].result = "raised: Device not connected"
    /\ \A t \in 1..Len(tasks) :
        (tasks[t].kind = "connect" /\ tasks[t].cl = 0) => OpsOf(t, "connect") = {}

\* the position of the inverted bit's byte in the corrupted frame
FlipPos == CHOOSE i \in 1..Len(cbuf) : cbuf[i] # cframe.frame[i]

\* C13 (as stated): inverting any one bit of a frame built from a payload of
\* length 1..32 makes parse_ack fail with the checksum-mismatch error.
C13_AnyFlipIsChecksumMismatch ==
    (cpc = "parsedflip" /\ Len(cin.payload) >= 1)
    => cack.err = "Checksum mismatch"

\* C13 (amended): parse_ack reports the first check that fails. A bit inverted
\* in the header gives the invalid-header error, in the version byte the
\* version error, in event, subevent, sequence, payload or checksum the
\* checksum-mismatch error; in the length byte a flip that raises the length
\* gives the length-mismatch error, and one that lowers it gives the
\* checksum-mismatch error or, for some frames, no error.
C13_FlipFailsFirstCheck ==
    (cpc = "parsedflip" /\ Len(cin.payload) >= 1)
    => IF FlipPos \in {1, 2} THEN cack.err = "Invalid header"
       ELSE IF FlipPos = 3 THEN cack.err = "Protocol version mismatch"
       ELSE IF FlipPos = 7 /\ cbuf[7] > cframe.frame[7]
            THEN cack.err = "ACK data length mismatch"
       ELSE IF FlipPos = 7 THEN cack.err \in {"Checksum mismatch", ""}
       ELSE cack.err = "Checksum mismatch"

C13_Witness ==
    /\ cpc = "parsedflip"
    /\ Len(cin.payload) = MAX_PAYLOAD
    /\ FlipPos = MAX_PAYLOAD + 7
    /\ cack.err = "Checksum mismatch"

\* C14: parse_ack never accepts a frame of build_frame in which one bit was
\* inverted, the bits of the length byte included.
C14_SingleBitDetected ==
    cpc = "parsedflip" => cack.err # ""

\* C15: build_frame raises "payload too long" exactly when the payload is
\* longer than 32 bytes, and returns a frame for every length 0..32.
C15_RejectsExactlyOversize ==
    cpc \in {"encoded", "decoded"} =>
        /\ (cframe.err # "") <=> (Len(cin.payload) > MAX_PAYLOAD)
        /\ cframe.err \in {"", "payload too long"}
        /\ cframe.err = "" => Len(cframe.frame) = Len(cin.payload) + 8

C15_Witness ==
    /\ cpc = "encoded"
    /\ Len(cin.payload) = MAX_PAYLOAD + 1
    /\ cframe.err = "payload too long"

\* C20: parse_ack accepts a buffer only if its byte at offset 7+N equals the
\* XOR of its bytes at offsets [0, 7+N), N being the declared payload length,
\* also when bytes follow the checksum position.
C20_ChecksumOfDeclaredFrame ==
    (cpc = "parsedraw" /\ cack.err = "")
    => cbuf[cbuf[7] + 8] = crc_xor(SubSeq(cbuf, 1, cbuf[7] + 7))

\* C16: a send() whose payload is longer than 32 bytes issues no transport
\* operation at all (no subscribe, write or unsubscribe), and unless the
\* client has stopped being connected by the time send_command runs, it fails
\* with the validation error "payload too long".
C16_OversizeRejectedBeforeIO ==
    \A t \in Sends :
        Len(tasks[t].payload) > MAX_PAYLOAD =>
            /\ \A i \in 1..Len(log) : log[i].task # t
            /\ tasks[t].pc = "done" =>
                    tasks[t].result \in {"raised: payload too long",
                                         "raised: Device not connected"}
            /\ (/\ tasks[t].pc = "done"
                /\ tasks[t].result = "raised: Device not connected")
               => \/ ~tasks[t].wasConnected
                  \/ client = 0
                  \/ ~clients[client].is_connected
                  \/ \E u \in (t + 1)..Len(tasks) : tasks[u].kind = "connect"

C16_Witness ==
    \E t \in DoneSends :
        /\ tasks[t].wasConnected
        /\ Len(tasks[t].payload) = MAX_PAYLOAD + 1
        /\ tasks[t].result = "raised: payload too long"
        /\ \A i \in 1..Len(log) : log[i].task # t
        /\ \E i \in 1..Len(log) : log[i].op = "connect" /\ log[i].ok

\* the names of the transport operations
TransportOps == {"scan", "connect", "start_notify", "write", "stop_notify", "disconnect"}

ExactMatches ==
    {i \in 1..Len(scan.devices) :
        scan.devices[i].name # "" /\ scan.devices[i].name = scan.device_name}

\* C18: discover_device_by_name returns the address of the first device of
\* the scan result whose name is exactly the requested one (a name differing
\* in case, a prefix, or no name never matches), and returns the not-found
\* value exactly when no device has that name.
C18_FirstExactMatch ==
    scan.pc = "returned" =>
        IF ExactMatches = {}
        THEN scan.address = ""
        ELSE \E i \in ExactMatches :
                /\ \A j \in ExactMatches : i <= j
                /\ scan.address = scan.devices[i].address

C18_Witness ==
    /\ scan.pc = "returned"
    /\ scan.device_name = "HOSHI-MATRIX"
    /\ Len(scan.devices) = 3
    /\ scan.devices[1].name = "hoshi-matrix"
    /\ scan.devices[2].name = "HOSHI-MATRIX"
    /\ scan.devices[3].name = "HOSHI-MATRIX"
    /\ scan.address = ScanAddresses[2]

\* C19: every call of connect(), send_command_sync() or disconnect_sync() on
\* the threaded controller eventually returns or raises, when every transport
\* operation completes and the worker loop is scheduled fairly.
C19_EveryCallReturns ==
    \A t \in 1..MaxCalls :
        [](Len(tasks) >= t => <>(Len(tasks) >= t /\ tasks[t].pc = "done"))

C19_Witness ==
    /\ threaded
    /\ Len(tasks) = 3
    /\ \A t \in 1..Len(tasks) : tasks[t].pc = "done"
    /\ \E t \in DoneSends : tasks[t].slept = ACK_WAIT /\ tasks[t].result = "ack"
    /\ \E t \in 1..Len(tasks) : tasks[t].kind = "connect" /\ tasks[t].result = "True"
    /\ \E t \in 1..Len(tasks) : tasks[t].kind = "disconnect"

\* C21: parse_ack reports the first check that fails, in the order too short
\* (fewer than 9 bytes), invalid header (bytes 0..1 not AA 55), version
\* mismatch (byte 2 not 1), length mismatch (7 + payload_length at or beyond
\* the end of the buffer), checksum mismatch; so a buffer of 8 bytes or fewer
\* is too short whatever it holds, and one of 9 or more with swapped header
\* bytes has an invalid header.
C21_ChecksInOrder ==
    cpc = "parsedraw" =>
        LET short == Len(cbuf) < 9
            header == ~short /\ <<cbuf[1], cbuf[2]>> # <<170, 85>>
            version == ~short /\ ~header /\ cbuf[3] # 1
            length == ~short /\ ~header /\ ~version /\ 7 + cbuf[7] >= Len(cbuf)
        IN  /\ short <=> cack.err = "ACK frame too short"
            /\ header <=> cack.err = "Invalid header"
            /\ version <=> cack.err = "Protocol version mismatch"
            /\ length <=> cack.err = "ACK data length mismatch"
            /\ cack.err \in {"ACK frame too short", "Invalid header",
                             "Protocol version mismatch", "ACK data length mismatch",
                             "Checksum mismatch", ""}

C21_Witness ==
    /\ cpc = "parsedraw"
    /\ Len(cbuf) = 8
    /\ cbuf[1] = 85
    /\ cbuf[2] = 170
    /\ cbuf[3] = 2
    /\ cack.err = "ACK frame too short"

\* C23: parse_ack accepts no buffer whose payload_length byte is more than 32.
C23_AcceptedLengthBounded ==
    (cpc = "parsedraw" /\ cack.err = "") => cbuf[7] <= MAX_PAYLOAD

\* bit b of byte x
BitOf(x, b) == (x \div (2 ^ b)) % 2

\* C24: for a payload of N <= 32 bytes build_frame returns 8+N bytes: AA 55,
\* 01, event, subevent, sequence, N, the payload unchanged, and a last byte
\* that is the XOR of all bytes before it (each of its bits is the parity of
\* that bit over them); (0x10, 0x01, 1, [0x01]) gives
\* AA 55 01 10 01 01 01 01 EE.
C24_FrameLayout ==
    (cpc \in {"encoded", "decoded"} /\ Len(cin.payload) <= MAX_PAYLOAD) =>
        LET f == cframe.frame
            N == Len(cin.payload)
        IN  /\ cframe.err = ""
            /\ Len(f) = 8 + N
            /\ SubSeq(f, 1, 7) = <<170, 85, 1, cin.event, cin.sub_event, cin.sequence, N>>
            /\ SubSeq(f, 8, 7 + N) = cin.payload
            /\ f[8 + N] \in 0..255
            /\ \A b \in 0..7 :
                    BitOf(f[8 + N], b)
                        = Cardinality({i \in 1..(7 + N) : BitOf(f[i], b) = 1}) % 2
            /\ (cin = [event |-> 16, sub_event |-> 1, sequence |-> 1, payload |-> <<1>>])
                => f = <<170, 85, 1, 16, 1, 1, 1, 1, 238>>

C24_Witness ==
    /\ cpc = "encoded"
    /\ cin = [event |-> 16, sub_event |-> 1, sequence |-> 1, payload |-> <<1>>]
    /\ cframe.frame = <<170, 85, 1, 16, 1, 1, 1, 1, 238>>

\* C25: a successful parse_ack returns status = payload byte 0, ref_event =
\* payload byte 1 when the payload length N is more than 1 and None otherwise,
\* ref_sub = payload byte 2 when N is more than 2 and None otherwise; status
\* is never None on success.
C25_AckFields ==
    (cpc = "parsedraw" /\ cack.err = "") =>
        LET N == cbuf[7]
        IN  /\ cack.status # None
            /\ cack.status = cbuf[8]
            /\ cack.ref_event = IF N > 1 THEN cbuf[9] ELSE None
            /\ cack.ref_sub = IF N > 2 THEN cbuf[10] ELSE None

\* C22: the ack a send() returns is the decoding of the first notification
\* received after its frame was written; a notification that came between
\* subscribe and write, or later in the window, never takes its place.
C22_FirstAfterWriteWins ==
    \A t \in DoneSends :
        tasks[t].result = "ack" =>
            /\ tasks[t].after_write # <<>>
            /\ tasks[t].ack_received = <<parse_ack(tasks[t].after_write[1])>>

\* C26: one send() causes at most one start_notify, one write_gatt_char and
\* one stop_notify, in that order; a failed write or a missing ack is not
\* followed by a second write.
C26_OneOfEachInOrder ==
    \A t \in Sends :
        /\ Cardinality(OpsOf(t, "start_notify")) <= 1
        /\ Cardinality(OpsOf(t, "write")) <= 1
        /\ Cardinality(OpsOf(t, "stop_notify")) <= 1
        /\ \A i \in OpsOf(t, "write") : \E j \in OpsOf(t, "start_notify") : j < i
        /\ \A k \in OpsOf(t, "stop_notify") :
                /\ \E j \in OpsOf(t, "start_notify") : j < k
                /\ \A i \in OpsOf(t, "write") : i < k

C26_Witness ==
    \E t \in DoneSends : \E u \in DoneSends :
        /\ t < u
        /\ tasks[t].result = "raised: Command send error"
        /\ \E i \in OpsOf(t, "write") : ~log[i].ok
        /\ OpsOf(t, "stop_notify") # {}
        /\ tasks[u].result = "None"
        /\ \E i \in OpsOf(u, "write") : log[i].ok

\* C27: a send() never returns an ack whose sequence differs from the
\* sequence of the frame it wrote.
C27_AckSequenceMatches ==
    \A t \in DoneSends :
        tasks[t].result = "ack" =>
            \A i \in OpsOf(t, "write") :
                tasks[t].ack_received[1].sequence = log[i].frame[6]

\* C10: the transport operations of two sends on the threaded controller never
\* interleave: no operation that the transport carried out for one send lies
\* between two it carried out for another.
C10_NoInterleaving ==
    \A i, j, k \in 1..Len(log) :
        (/\ i < j
         /\ j < k
         /\ log[i].ok /\ log[j].ok /\ log[k].ok
         /\ log[i].task \in Sends
         /\ log[j].task \in Sends
         /\ log[i].task = log[k].task)
        => log[j].task = log[i].task

=============================================================================
